---- MODULE Spec2Model ----
(***************************************************************************)
(* The flash-message store of webapp/flash_messages.py: a per-session     *)
(* mapping from request ids to message records, kept in flask.session     *)
(* under FLASH_MESSAGES_KEY, with lazy expiry, a capacity guard and a     *)
(* consumed flag.                                                          *)
(*                                                                         *)
(* The mapping is a Python dict, whose iteration order is the insertion   *)
(* order of its keys; min() and the loops of the module depend on that    *)
(* order, so the mapping is modelled as a sequence of records that carry  *)
(* their key in the field id.                                              *)
(***************************************************************************)
EXTENDS Integers, Sequences, FiniteSets, TLC

\* ---------------------------------------------------------------- constants

\* flash_messages.py:19
MAX_MESSAGE_AGE == 60
\* flash_messages.py:21
MAX_MESSAGES_PER_SESSION == 25

\* ------------------------------------------------------------------- bounds

\* How many times the clock may be seen to have advanced in one behaviour.
MaxTicks == 2
\* How many request ids _get_request_id generates in one behaviour of Spec.
MaxUuids == 1
\* How many request ids beyond MAX_MESSAGES_PER_SESSION are generated in one
\* behaviour of SpecCap and SpecFill.
MaxOverflow == 1

\* How many functions of the module one request of SpecTabs calls.
MaxCalls == 1

\* The amounts by which time.time() is seen to have advanced between two
\* reads: one second, and one second short of MAX_MESSAGE_AGE, so that ages
\* MAX_MESSAGE_AGE - 1, MAX_MESSAGE_AGE and beyond all occur.
TickSteps == {1, MAX_MESSAGE_AGE - 1}

\* ------------------------------------------------------------------- inputs

\* Python's None, as the value of an omitted request_id.
None == "None"
\* Request ids that callers make up themselves.
CallerIds == {"a"}
\* flask.request.path of the requests.
Paths == {"/test"}
Messages == {"m1", "m2"}
Categories == {"positive", "negative"}
\* category_filter: None or a list of categories, of which only membership
\* and emptiness are read.
NoFilter == [given |-> FALSE, cats |-> {}]
CategoryFilters ==
    {NoFilter, [given |-> TRUE, cats |-> {}],
     [given |-> TRUE, cats |-> {"positive"}]}

VARIABLES
    store,      \* flask.session[FLASH_MESSAGES_KEY], in dict iteration order
    clock,      \* the value time.time() returned last
    ticks,      \* how many times the clock has been seen to advance
    nextUuid,   \* how many uuid4 values have been drawn
    last,       \* the call made last: its arguments and what it returned
    returned,   \* the keys of the records get_all_flash_messages has
                \* returned since flash_message last stored a record
    looked,     \* for each stored key, how many get_flash_messages calls
                \* have looked its record up (SpecLook)
    tabs        \* the requests that run side by side on one session, each
                \* with the mapping it loaded (SpecTabs)

vars == <<store, clock, ticks, nextUuid, last, returned, looked, tabs>>

\* ------------------------------------------------------------ dict helpers

\* messages.keys()
Keys(messages) == {messages[i].id : i \in DOMAIN messages}

\* messages[k], for k in messages
Lookup(messages, k) ==
    messages[CHOOSE i \in DOMAIN messages : messages[i].id = k]

\* del messages[k]
DelItem(messages, k) == SelectSeq(messages, LAMBDA r : r.id # k)

\* dict.setdefault in place of the assignment: an existing key keeps its
\* record.
SetDefault(messages, k, data) ==
    IF k \in Keys(messages) THEN messages ELSE Append(messages, data)

\* messages[k] = data: an existing key keeps its place in the iteration
\* order, a new key goes last.
SetItem(messages, k, data) ==
    IF k \in Keys(messages)
    THEN [i \in DOMAIN messages |->
            IF messages[i].id = k THEN data ELSE messages[i]]
    ELSE Append(messages, data)

\* msg_data.get(key, default)
DictGet(msg_data, key, default) ==
    IF key \in DOMAIN msg_data THEN msg_data[key] ELSE default

\* msg_data["consumed"] = True: the key is added when it is missing.
SetConsumed(msg_data) ==
    IF "consumed" \in DOMAIN msg_data
    THEN [msg_data EXCEPT !.consumed = TRUE]
    ELSE [k \in DOMAIN msg_data \cup {"consumed"} |->
             IF k = "consumed" THEN TRUE ELSE msg_data[k]]

\* bool(category_filter) and msg_data["category"] not in category_filter
FilteredOut(category_filter, msg_data) ==
    /\ category_filter.given
    /\ category_filter.cats # {}
    /\ msg_data.category \notin category_filter.cats

\* The item appended to the result for one record.
Item(msg_data, with_categories) ==
    IF with_categories
    THEN <<msg_data.category, msg_data.message>>
    ELSE msg_data.message

\* ---------------------------------------------------------- the functions

\* f"{path}:{request_uuid}", the n-th uuid4 standing for itself
_get_request_id(path, n) == path \o ":" \o ToString(n)

\* The sweep with <= in place of <.
_cleanup_old_messages_inclusive(messages, current_time) ==
    SelectSeq(messages,
              LAMBDA msg_data :
                  current_time - DictGet(msg_data, "timestamp", 0)
                      <= MAX_MESSAGE_AGE)

\* The sweep with the subtraction turned round: no age reaches the limit.
_cleanup_old_messages_reversed(messages, current_time) ==
    SelectSeq(messages,
              LAMBDA msg_data :
                  DictGet(msg_data, "timestamp", 0) - current_time
                      < MAX_MESSAGE_AGE)

_cleanup_old_messages(messages, current_time) ==
    SelectSeq(messages,
              LAMBDA msg_data :
                  current_time - DictGet(msg_data, "timestamp", 0)
                      < MAX_MESSAGE_AGE)

\* The scan of min(): best is the index of the smallest timestamp among the
\* records before the i-th, the first one of them when several are equal.
RECURSIVE min_scan(_, _, _)
min_scan(messages, i, best) ==
    IF i > Len(messages)
    THEN best
    ELSE min_scan(messages, i + 1,
                  IF DictGet(messages[i], "timestamp", 0)
                         < DictGet(messages[best], "timestamp", 0)
                  THEN i ELSE best)

\* The scan keeping the last of several equal timestamps.
RECURSIVE min_scan_last(_, _, _)
min_scan_last(messages, i, best) ==
    IF i > Len(messages)
    THEN best
    ELSE min_scan_last(messages, i + 1,
                       IF DictGet(messages[i], "timestamp", 0)
                              <= DictGet(messages[best], "timestamp", 0)
                       THEN i ELSE best)

\* A minimum that keeps the last key of minimal timestamp.
oldest_key_last_tie(messages) ==
    messages[min_scan_last(messages, 2, 1)].id

\* A minimum taken among the consumed records when there are any.
oldest_key_consumed_first(messages) ==
    LET used == SelectSeq(messages,
                          LAMBDA msg_data :
                              DictGet(msg_data, "consumed", FALSE))
        among == IF used = <<>> THEN messages ELSE used
    IN  among[min_scan(among, 2, 1)].id

\* min(messages.keys(), key=lambda k: messages[k].get("timestamp", 0)):
\* the first key, in iteration order, of minimal timestamp.
oldest_key(messages) ==
    messages[min_scan(messages, 2, 1)].id

\* The capacity guard with > in place of >=.
flash_store_late(messages, message, category, request_id, current_time, stamp) ==
    LET cleaned == _cleanup_old_messages(messages, current_time)
        room == IF Len(cleaned) > MAX_MESSAGES_PER_SESSION
                THEN DelItem(cleaned, oldest_key(cleaned))
                ELSE cleaned
    IN  SetItem(room, request_id,
                [id |-> request_id, message |-> message,
                 category |-> category, timestamp |-> stamp,
                 consumed |-> FALSE])

\* flash_message, lines 76-98: the mapping it stores. current_time is the
\* clock as _cleanup_old_messages reads it, stamp the clock as line 94
\* reads it.
flash_store(messages, message, category, request_id, current_time, stamp) ==
    LET cleaned == _cleanup_old_messages(messages, current_time)
        room == IF Len(cleaned) >= MAX_MESSAGES_PER_SESSION
                THEN DelItem(cleaned, oldest_key(cleaned))
                ELSE cleaned
    IN  SetItem(room, request_id,
                [id |-> request_id, message |-> message,
                 category |-> category, timestamp |-> stamp,
                 consumed |-> FALSE])

\* The lookup without line 129.
get_store_unmarked(messages, request_id) == messages

\* get_flash_messages, lines 126-130: the mapping it stores, for a
\* request_id in messages.
get_store(messages, request_id) ==
    [i \in DOMAIN messages |->
        IF messages[i].id = request_id
        THEN SetConsumed(messages[i])
        ELSE messages[i]]

\* A lookup that returns a record once only.
get_result_once(messages, request_id, with_categories, category_filter) ==
    LET msg_data == Lookup(messages, request_id)
    IN  IF \/ DictGet(msg_data, "consumed", FALSE)
           \/ FilteredOut(category_filter, msg_data)
        THEN <<>>
        ELSE <<Item(msg_data, with_categories)>>

\* get_flash_messages, lines 132-139: what it returns, for a request_id in
\* messages.
get_result(messages, request_id, with_categories, category_filter) ==
    LET msg_data == Lookup(messages, request_id)
    IN  IF FilteredOut(category_filter, msg_data)
        THEN <<>>
        ELSE <<Item(msg_data, with_categories)>>

\* get_all_flash_messages, lines 165-171: whether the loop reaches the
\* append for this record.
Delivered(msg_data, category_filter) ==
    /\ ~DictGet(msg_data, "consumed", FALSE)
    /\ ~FilteredOut(category_filter, msg_data)

\* The loop storing in consumed whether it has just returned the record.
get_all_store_reset(messages, category_filter, current_time) ==
    LET cleaned == _cleanup_old_messages(messages, current_time)
    IN  [i \in DOMAIN cleaned |->
            [cleaned[i] EXCEPT
                !.consumed = Delivered(cleaned[i], category_filter)]]

\* The loop marking a record before it looks at its category, as
\* get_flash_messages does.
get_all_store_mark_first(messages, category_filter, current_time) ==
    LET cleaned == _cleanup_old_messages(messages, current_time)
    IN  [i \in DOMAIN cleaned |-> SetConsumed(cleaned[i])]

\* The loop without line 179.
get_all_store_unmarked(messages, category_filter, current_time) ==
    _cleanup_old_messages(messages, current_time)

\* get_all_flash_messages, lines 163-181: the mapping it stores.
get_all_store(messages, category_filter, current_time) ==
    LET cleaned == _cleanup_old_messages(messages, current_time)
    IN  [i \in DOMAIN cleaned |->
            IF Delivered(cleaned[i], category_filter)
            THEN SetConsumed(cleaned[i])
            ELSE cleaned[i]]

\* The records get_all_flash_messages appends an item for, in order.
get_all_delivered(messages, category_filter, current_time) ==
    SelectSeq(_cleanup_old_messages(messages, current_time),
              LAMBDA msg_data : Delivered(msg_data, category_filter))

\* get_all_flash_messages, lines 160-182: what it returns.
get_all_result(messages, with_categories, category_filter, current_time) ==
    LET hits == get_all_delivered(messages, category_filter, current_time)
    IN  [i \in DOMAIN hits |-> Item(hits[i], with_categories)]

\* The else branch emptying the mapping too.
clear_store_all(messages, request_id) == <<>>

\* clear_flash_messages, lines 196-204: the mapping in the session after it.
clear_store(messages, request_id) ==
    IF request_id = None
    THEN <<>>
    ELSE IF request_id \in Keys(messages)
         THEN DelItem(messages, request_id)
         ELSE messages

\* The check made on the swept mapping, as the retrieval of all messages
\* makes it.
has_result_swept(messages, request_id) ==
    LET cleaned == _cleanup_old_messages(messages, clock)
    IN  IF request_id # None
        THEN \E i \in DOMAIN cleaned :
                 /\ cleaned[i].id = request_id
                 /\ ~DictGet(cleaned[i], "consumed", FALSE)
        ELSE \E i \in DOMAIN cleaned : ~DictGet(cleaned[i], "consumed", FALSE)

\* has_flash_messages, lines 221-233: what it returns.
has_result(messages, request_id) ==
    IF request_id # None
    THEN /\ request_id \in Keys(messages)
         /\ ~DictGet(Lookup(messages, request_id), "consumed", FALSE)
    ELSE \E i \in DOMAIN messages : ~DictGet(messages[i], "consumed", FALSE)

\* A write that merges the records into the mapping the session holds.
session_save_merge(persisted, messages) ==
    SelectSeq(persisted, LAMBDA r : r.id \notin Keys(messages)) \o messages

\* flask.session[FLASH_MESSAGES_KEY] = messages: the mapping the session
\* holds after the write, whatever it held before.
session_save(persisted, messages) == messages

\* ------------------------------------------------------------------ calls

\* The record of one call. Fields a call does not have hold fixed values.
\* ctx is flask.has_request_context() during the call, now the clock as the
\* call read it, ids the keys of the records the returned items come from,
\* fresh whether request_id is what a flash_message call, the call made just
\* before this one, returned.
Call(op, ctx, request_id, with_cat, cat_filter, message, category, now, ret, ids) ==
    [op |-> op, ctx |-> ctx, request_id |-> request_id,
     with_categories |-> with_cat,
     category_filter |-> cat_filter,
     message |-> message, category |-> category,
     now |-> now, ret |-> ret, ids |-> ids,
     fresh |-> /\ op = "get_flash_messages"
               /\ last.op = "flash_message"
               /\ last.ctx
               /\ last.ret = request_id]

\* The requests of SpecTabs. pc is where a request stands (idle, loaded,
\* saved), loaded the mapping as it read it from the session, messages the
\* mapping it works on, calls the functions it has called, ids the keys of
\* the records get_all_flash_messages returned to it, after the requests
\* that had saved when it loaded.
TabIds == {1, 2}
IdleTab ==
    [pc |-> "idle", loaded |-> <<>>, messages |-> <<>>, calls |-> <<>>,
     ids |-> <<>>, after |-> {}]
\* No request has started and none has saved.
NoTabs == [req |-> [t \in TabIds |-> IdleTab], saved |-> <<>>]

\* The elements of a sequence.
Range(seq) == {seq[i] : i \in DOMAIN seq}

\* A call made with flask.has_request_context() false: every function
\* returns its sentinel before it reads an argument.
NoContext(op, ret) ==
    Call(op, FALSE, None, FALSE, NoFilter, "", "", clock, ret, <<>>)

Init ==
    /\ store = <<>>
    /\ clock = 0
    /\ ticks = 0
    /\ nextUuid = 1
    /\ last = [op |-> "init", ctx |-> FALSE, request_id |-> None,
               with_categories |-> FALSE, category_filter |-> NoFilter,
               message |-> "", category |-> "", now |-> 0, ret |-> None,
               ids |-> <<>>, fresh |-> FALSE]
    /\ returned = {}
    /\ looked = <<>>
    /\ tabs = NoTabs

\* Time passes between two calls: time.time() advances by d.
Tick(d) ==
    /\ ticks < MaxTicks
    /\ ticks' = ticks + 1
    /\ clock' = clock + d
    /\ UNCHANGED <<store, nextUuid, last, returned, looked, tabs>>

\* flash_message(message, category, request_id) in a request whose path is
\* path; uuids bounds the uuid4 values of one behaviour. The reads of
\* time.time() at lines 44 and 94 return the same value.
flash_message(message, category, request_id, ctx, path, uuids) ==
    /\ UNCHANGED <<clock, ticks>>
    /\ IF ~ctx
       THEN /\ UNCHANGED <<store, nextUuid, returned>>
            /\ last' = NoContext("flash_message", "")
       ELSE LET rid == IF request_id = None
                       THEN _get_request_id(path, nextUuid)
                       ELSE request_id
            IN  /\ request_id = None => nextUuid <= uuids
                /\ nextUuid' = IF request_id = None
                               THEN nextUuid + 1
                               ELSE nextUuid
                /\ store' = flash_store(store, message, category, rid,
                                        clock, clock)
                /\ last' = Call("flash_message", TRUE, request_id, FALSE,
                                NoFilter, message, category, clock, rid,
                                <<>>)
                /\ returned' = {}

\* get_flash_messages marking the record after the filter, when it returns
\* the message, as get_all_flash_messages does.
get_flash_messages_mark_returned(request_id, with_categories, category_filter, ctx) ==
    /\ UNCHANGED <<clock, ticks, nextUuid, returned>>
    /\ IF ~ctx
       THEN /\ UNCHANGED store
            /\ last' = NoContext("get_flash_messages", <<>>)
       ELSE IF request_id \notin Keys(store)
       THEN /\ UNCHANGED store
            /\ last' = Call("get_flash_messages", TRUE, request_id,
                            with_categories, category_filter, "", "",
                            clock, <<>>, <<>>)
       ELSE LET ret == get_result(store, request_id, with_categories,
                                  category_filter)
            IN  /\ store' = IF ret = <<>>
                            THEN store
                            ELSE get_store(store, request_id)
                /\ last' = Call("get_flash_messages", TRUE, request_id,
                                with_categories, category_filter, "", "",
                                clock, ret,
                                IF ret = <<>> THEN <<>> ELSE <<request_id>>)

get_flash_messages(request_id, with_categories, category_filter, ctx) ==
    /\ UNCHANGED <<clock, ticks, nextUuid, returned>>
    /\ IF ~ctx
       THEN /\ UNCHANGED store
            /\ last' = NoContext("get_flash_messages", <<>>)
       ELSE IF request_id \notin Keys(store)
       THEN /\ UNCHANGED store
            /\ last' = Call("get_flash_messages", TRUE, request_id,
                            with_categories, category_filter, "", "",
                            clock, <<>>, <<>>)
       ELSE /\ store' = get_store(store, request_id)
            /\ LET ret == get_result(store, request_id, with_categories,
                                     category_filter)
               IN  last' = Call("get_flash_messages", TRUE, request_id,
                                with_categories, category_filter, "", "",
                                clock, ret,
                                IF ret = <<>> THEN <<>> ELSE <<request_id>>)

get_all_flash_messages(with_categories, category_filter, ctx) ==
    /\ UNCHANGED <<clock, ticks, nextUuid>>
    /\ IF ~ctx
       THEN /\ UNCHANGED <<store, returned>>
            /\ last' = NoContext("get_all_flash_messages", <<>>)
       ELSE /\ store' = get_all_store(store, category_filter, clock)
            /\ LET hits == get_all_delivered(store, category_filter, clock)
               IN  /\ last' = Call("get_all_flash_messages", TRUE, None,
                                   with_categories, category_filter, "", "",
                                   clock,
                                   get_all_result(store, with_categories,
                                                  category_filter, clock),
                                   [i \in DOMAIN hits |-> hits[i].id])
                   /\ returned' = returned \cup Keys(hits)

\* clear_flash_messages without lines 193-194.
clear_flash_messages_unguarded(request_id, ctx) ==
    /\ UNCHANGED <<clock, ticks, nextUuid, returned>>
    /\ store' = clear_store(store, request_id)
    /\ last' = IF ctx
               THEN Call("clear_flash_messages", TRUE, request_id, FALSE,
                         NoFilter, "", "", clock, None, <<>>)
               ELSE NoContext("clear_flash_messages", None)

clear_flash_messages(request_id, ctx) ==
    /\ UNCHANGED <<clock, ticks, nextUuid, returned>>
    /\ IF ~ctx
       THEN /\ UNCHANGED store
            /\ last' = NoContext("clear_flash_messages", None)
       ELSE /\ store' = clear_store(store, request_id)
            /\ last' = Call("clear_flash_messages", TRUE, request_id, FALSE,
                            NoFilter, "", "", clock, None, <<>>)

\* has_flash_messages sweeping the mapping as get_all_flash_messages does.
has_flash_messages_sweeping(request_id, ctx) ==
    /\ UNCHANGED <<clock, ticks, nextUuid, returned>>
    /\ store' = IF ctx THEN _cleanup_old_messages(store, clock) ELSE store
    /\ last' = IF ~ctx
               THEN NoContext("has_flash_messages", FALSE)
               ELSE Call("has_flash_messages", TRUE, request_id, FALSE,
                         NoFilter, "", "", clock,
                         has_result(store', request_id), <<>>)

has_flash_messages(request_id, ctx) ==
    /\ UNCHANGED <<store, clock, ticks, nextUuid, returned>>
    /\ last' = IF ~ctx
               THEN NoContext("has_flash_messages", FALSE)
               ELSE Call("has_flash_messages", TRUE, request_id, FALSE,
                         NoFilter, "", "", clock,
                         has_result(store, request_id), <<>>)

\* --------------------------------------------------------- specifications

\* The request ids a caller can pass: the ones it made up and the ones
\* flash_message has returned.
KnownIds ==
    CallerIds \cup {_get_request_id(p, n) : p \in Paths, n \in 1..(nextUuid - 1)}

Time == \E d \in TickSteps : Tick(d)

\* Without a request context a function returns before it reads an argument:
\* such calls are made with one choice of arguments.
Flash ==
    \E ctx \in BOOLEAN :
        \E message \in (IF ctx THEN Messages ELSE {"m1"}),
           category \in (IF ctx THEN Categories ELSE {"positive"}),
           request_id \in (IF ctx THEN {None} \cup KnownIds ELSE {None}),
           path \in Paths :
            /\ flash_message(message, category, request_id, ctx, path,
                             MaxUuids)
            /\ UNCHANGED <<looked, tabs>>

Get ==
    \E ctx \in BOOLEAN :
        \E request_id \in (IF ctx THEN KnownIds ELSE CallerIds),
           with_categories \in (IF ctx THEN BOOLEAN ELSE {FALSE}),
           category_filter \in (IF ctx THEN CategoryFilters ELSE {NoFilter}) :
            /\ get_flash_messages(request_id, with_categories,
                                  category_filter, ctx)
            /\ UNCHANGED <<looked, tabs>>

GetAll ==
    \E ctx \in BOOLEAN :
        \E with_categories \in (IF ctx THEN BOOLEAN ELSE {FALSE}),
           category_filter \in (IF ctx THEN CategoryFilters ELSE {NoFilter}) :
            /\ get_all_flash_messages(with_categories, category_filter, ctx)
            /\ UNCHANGED <<looked, tabs>>

Clear ==
    \E ctx \in BOOLEAN :
        \E request_id \in (IF ctx THEN {None} \cup KnownIds ELSE {None}) :
            /\ clear_flash_messages(request_id, ctx)
            /\ UNCHANGED <<looked, tabs>>

Has ==
    \E ctx \in BOOLEAN :
        \E request_id \in (IF ctx THEN {None} \cup KnownIds ELSE {None}) :
            /\ has_flash_messages(request_id, ctx)
            /\ UNCHANGED <<looked, tabs>>

Next == Time \/ Flash \/ Get \/ GetAll \/ Clear \/ Has

Spec == Init /\ [][Next]_vars

\* SpecFill: nothing but flash_message calls that omit request_id, from the
\* empty store until MAX_MESSAGES_PER_SESSION + MaxOverflow ids have been
\* generated, with time passing between the calls.
FillFlash ==
    /\ \E path \in Paths :
           flash_message("m1", "positive", None, TRUE, path,
                         MAX_MESSAGES_PER_SESSION + MaxOverflow)
    /\ UNCHANGED <<looked, tabs>>

NextFill == Time \/ FillFlash

SpecFill == Init /\ [][NextFill]_vars

\* SpecCap: the store at its limit. It is filled from empty with records that
\* differ in their ids only; whenever it holds MAX_MESSAGES_PER_SESSION
\* records the calls take their other forms, flash_message with a message
\* that the records stored so far do not have, and time passes.
AtLimit == Len(store) = MAX_MESSAGES_PER_SESSION

\* The ids passed at the limit: the first one generated and the one
\* flash_message has just returned.
CapIds ==
    {_get_request_id(p, 1) : p \in Paths}
        \cup (IF last.op = "flash_message" /\ last.ctx
              THEN {last.ret} ELSE {})

CapTime == AtLimit /\ Time

CapFill ==
    /\ ~AtLimit
    /\ \E path \in Paths :
           flash_message("m1", "positive", None, TRUE, path,
                         MAX_MESSAGES_PER_SESSION + MaxOverflow)
    /\ UNCHANGED <<looked, tabs>>

CapFlash ==
    /\ AtLimit
    /\ \E message \in Messages \ {"m1"}, category \in Categories,
          request_id \in {None} \cup CapIds, path \in Paths :
           flash_message(message, category, request_id, TRUE, path,
                         MAX_MESSAGES_PER_SESSION + MaxOverflow)
    /\ UNCHANGED <<looked, tabs>>

CapGet ==
    /\ Len(store) >= MAX_MESSAGES_PER_SESSION - 1
    /\ \E request_id \in CapIds, with_categories \in BOOLEAN :
           get_flash_messages(request_id, with_categories, NoFilter, TRUE)
    /\ UNCHANGED <<looked, tabs>>

CapGetAll ==
    /\ AtLimit
    /\ get_all_flash_messages(FALSE, NoFilter, TRUE)
    /\ UNCHANGED <<looked, tabs>>

CapClear ==
    /\ AtLimit
    /\ \E request_id \in {None} \cup CapIds :
           clear_flash_messages(request_id, TRUE)
    /\ UNCHANGED <<looked, tabs>>

CapHas ==
    /\ AtLimit
    /\ \E request_id \in {None} \cup CapIds :
           has_flash_messages(request_id, TRUE)
    /\ UNCHANGED <<looked, tabs>>

NextCap ==
    CapTime \/ CapFill \/ CapFlash \/ CapGet \/ CapGetAll \/ CapClear \/ CapHas

SpecCap == Init /\ [][NextCap]_vars

\* SpecMalformed: the session holds a mapping that this module has not
\* written as it stands: a record, the last one inserted, lacks its
\* timestamp, its consumed flag or both. The records were stored at
\* MalformedStamp, one second before the first call: the values of
\* time.time() lie far beyond MAX_MESSAGE_AGE.
MalformedStamp == 2 * MAX_MESSAGE_AGE

\* A record stored under id at time stamp, without the fields missing.
Stored(id, stamp, missing) ==
    LET msg_data == [id |-> id, message |-> "m1", category |-> "positive",
                     timestamp |-> stamp, consumed |-> FALSE]
    IN  [k \in DOMAIN msg_data \ missing |-> msg_data[k]]

MissingFields == {{"timestamp"}, {"consumed"}, {"timestamp", "consumed"}}

\* Mappings of one record, of two, and of MAX_MESSAGES_PER_SESSION records.
MalformedStores ==
    {[i \in 1..n |->
         Stored(_get_request_id("/test", i), MalformedStamp,
                IF i = n THEN missing ELSE {})] :
        n \in {1, 2, MAX_MESSAGES_PER_SESSION}, missing \in MissingFields}

InitMalformed ==
    /\ store \in MalformedStores
    /\ clock = MalformedStamp + 1
    /\ ticks = 0
    /\ nextUuid = MAX_MESSAGES_PER_SESSION + 1
    /\ last = [op |-> "init", ctx |-> FALSE, request_id |-> None,
               with_categories |-> FALSE, category_filter |-> NoFilter,
               message |-> "", category |-> "", now |-> 0, ret |-> None,
               ids |-> <<>>, fresh |-> FALSE]
    /\ returned = {}
    /\ looked = <<>>
    /\ tabs = NoTabs

\* The ids of the records the session holds at first.
MalformedIds ==
    {_get_request_id("/test", i) : i \in {1, 2, MAX_MESSAGES_PER_SESSION}}

MalFlash ==
    /\ \E path \in Paths :
           flash_message("m2", "positive", None, TRUE, path,
                         MAX_MESSAGES_PER_SESSION + 1 + MaxOverflow)
    /\ UNCHANGED <<looked, tabs>>

MalGet ==
    /\ \E request_id \in MalformedIds :
           get_flash_messages(request_id, FALSE, NoFilter, TRUE)
    /\ UNCHANGED <<looked, tabs>>

MalGetAll ==
    /\ get_all_flash_messages(FALSE, NoFilter, TRUE)
    /\ UNCHANGED <<looked, tabs>>

MalHas ==
    /\ \E request_id \in {None} \cup MalformedIds :
           has_flash_messages(request_id, TRUE)
    /\ UNCHANGED <<looked, tabs>>

NextMalformed == Time \/ MalFlash \/ MalGet \/ MalGetAll \/ MalHas

SpecMalformed == InitMalformed /\ [][NextMalformed]_vars

\* SpecLook: the calls of Spec, all with a request context, with the
\* lookups counted: looked[k] tells, for the record stored under k, how many
\* get_flash_messages calls have looked it up since flash_message stored
\* it (n: 0, 1, or 2 for more), and the arguments and the result of the
\* latest one.
NotLooked == [n |-> 0, args |-> <<>>, ret |-> <<>>]

\* The filters of SpecLook: none, and one that admits one category.
LookFilters == {NoFilter, [given |-> TRUE, cats |-> {"positive"}]}

\* looked after a call that leaves the mapping messages: the counts of the
\* keys that are left.
Looks(l, messages) ==
    [k \in Keys(messages) |-> IF k \in DOMAIN l THEN l[k] ELSE NotLooked]

LookFlash ==
    /\ \E category \in Categories, request_id \in {None} \cup KnownIds,
          path \in Paths :
           flash_message("m1", category, request_id, TRUE, path, MaxUuids)
    /\ looked' = [Looks(looked, store') EXCEPT ![last'.ret] = NotLooked]
    /\ UNCHANGED tabs

LookGet ==
    /\ \E request_id \in KnownIds, category_filter \in LookFilters :
           get_flash_messages(request_id, FALSE, category_filter, TRUE)
    /\ looked' =
           IF last'.request_id \in Keys(store)
           THEN [looked EXCEPT
                    ![last'.request_id] =
                        [n |-> IF @.n = 0 THEN 1 ELSE 2,
                         args |-> <<last'.with_categories,
                                    last'.category_filter>>,
                         ret |-> last'.ret]]
           ELSE looked
    /\ UNCHANGED tabs

LookGetAll ==
    /\ \E category_filter \in LookFilters :
           get_all_flash_messages(FALSE, category_filter, TRUE)
    /\ looked' = Looks(looked, store')
    /\ UNCHANGED tabs

LookClear ==
    /\ \E request_id \in {None} \cup KnownIds :
           clear_flash_messages(request_id, TRUE)
    /\ looked' = Looks(looked, store')
    /\ UNCHANGED tabs

NextLook == Time \/ LookFlash \/ LookGet \/ LookGetAll \/ LookClear

SpecLook == Init /\ [][NextLook]_vars

\* SpecTabs: requests of one session that run side by side. flash_message
\* calls store records first; then each request reads the mapping from the
\* session, calls up to MaxCalls functions, which work on the mapping it
\* read, and writes its mapping back. store is the mapping the session
\* holds. The requests generate the ids of the records they add.
TabsIdle == \A t \in TabIds : tabs.req[t].pc = "idle"

TabSetup ==
    /\ TabsIdle
    /\ \E path \in Paths, category \in Categories :
           flash_message("m1", category, None, TRUE, path, MaxUuids + 1)
    /\ UNCHANGED <<looked, tabs>>

\* The request t after a call that leaves it the mapping messages and has
\* returned the records of the keys ids.
TabCalled(t, op, messages, ids) ==
    [tabs EXCEPT !.req[t].messages = messages,
                 !.req[t].calls = Append(@, op),
                 !.req[t].ids = @ \o ids]

\* messages = flask.session.get(FLASH_MESSAGES_KEY, {})
TabLoad(t) ==
    /\ tabs.req[t].pc = "idle"
    /\ store # <<>>
    /\ tabs' = [tabs EXCEPT
                   !.req[t] = [pc |-> "loaded", loaded |-> store,
                               messages |-> store, calls |-> <<>>,
                               ids |-> <<>>,
                               after |-> {u \in TabIds :
                                             tabs.req[u].pc = "saved"}]]
    /\ UNCHANGED <<store, clock, ticks, nextUuid, last, returned, looked>>

TabFlash(t, path) ==
    /\ tabs.req[t].pc = "loaded"
    /\ Len(tabs.req[t].calls) < MaxCalls
    /\ nextUuid <= MaxUuids + 1 + MaxCalls
    /\ nextUuid' = nextUuid + 1
    /\ tabs' = TabCalled(t, "flash_message",
                         flash_store(tabs.req[t].messages, "m2", "positive",
                                     _get_request_id(path, nextUuid),
                                     clock, clock),
                         <<>>)
    /\ UNCHANGED <<store, clock, ticks, last, returned, looked>>

TabGet(t, request_id) ==
    /\ tabs.req[t].pc = "loaded"
    /\ Len(tabs.req[t].calls) < MaxCalls
    /\ tabs' = TabCalled(t, "get_flash_messages",
                         IF request_id \in Keys(tabs.req[t].messages)
                         THEN get_store(tabs.req[t].messages, request_id)
                         ELSE tabs.req[t].messages,
                         <<>>)
    /\ UNCHANGED <<store, clock, ticks, nextUuid, last, returned, looked>>

TabGetAll(t, category_filter) ==
    /\ tabs.req[t].pc = "loaded"
    /\ Len(tabs.req[t].calls) < MaxCalls
    /\ LET hits == get_all_delivered(tabs.req[t].messages, category_filter,
                                     clock)
       IN  tabs' = TabCalled(t, "get_all_flash_messages",
                             get_all_store(tabs.req[t].messages,
                                           category_filter, clock),
                             [i \in DOMAIN hits |-> hits[i].id])
    /\ UNCHANGED <<store, clock, ticks, nextUuid, last, returned, looked>>

TabClear(t, request_id) ==
    /\ tabs.req[t].pc = "loaded"
    /\ Len(tabs.req[t].calls) < MaxCalls
    /\ tabs' = TabCalled(t, "clear_flash_messages",
                         clear_store(tabs.req[t].messages, request_id),
                         <<>>)
    /\ UNCHANGED <<store, clock, ticks, nextUuid, last, returned, looked>>

\* flask.session[FLASH_MESSAGES_KEY] = messages
TabSave(t) ==
    /\ tabs.req[t].pc = "loaded"
    /\ tabs.req[t].calls # <<>>
    /\ store' = session_save(store, tabs.req[t].messages)
    /\ tabs' = [tabs EXCEPT !.req[t].pc = "saved",
                            !.saved = Append(@, t)]
    /\ UNCHANGED <<clock, ticks, nextUuid, last, returned, looked>>

TabLoading == \E t \in TabIds : TabLoad(t)
TabFlashing == \E t \in TabIds, path \in Paths : TabFlash(t, path)
TabGetting ==
    \E t \in TabIds :
        \E request_id \in Keys(tabs.req[t].loaded) : TabGet(t, request_id)
TabGettingAll ==
    \E t \in TabIds :
        \E category_filter \in {NoFilter, [given |-> TRUE,
                                           cats |-> {"positive"}]} :
            TabGetAll(t, category_filter)
TabClearing ==
    \E t \in TabIds :
        \E request_id \in Keys(tabs.req[t].loaded) : TabClear(t, request_id)
TabSaving == \E t \in TabIds : TabSave(t)

NextTabs ==
    \/ TabSetup \/ TabLoading \/ TabFlashing \/ TabGetting
    \/ TabGettingAll \/ TabClearing \/ TabSaving

SpecTabs == Init /\ [][NextTabs]_vars

\* ------------------------------------------------------------------ claims

\* C1: with a request context, flash_message followed at once by
\* get_flash_messages of the returned id, without a category_filter,
\* returns the one message, or the one (category, message) pair with
\* with_categories. Checked under SpecCap, where the store is also full.
C1_FlashThenGet ==
    [][(/\ last.op = "flash_message"
        /\ last.ctx
        /\ clock' = clock
        /\ last'.op = "get_flash_messages"
        /\ last'.ctx
        /\ last'.request_id = last.ret
        /\ ~last'.category_filter.given)
       => last'.ret = <<IF last'.with_categories
                        THEN <<last.category, last.message>>
                        ELSE last.message>>]_vars

\* The 26th generated id was stored in a full mapping and looked up at
\* once, with categories.
C1_Witness ==
    /\ last.op = "get_flash_messages"
    /\ last.fresh
    /\ last.with_categories
    /\ ~last.category_filter.given
    /\ \E path \in Paths :
           last.request_id =
               _get_request_id(path, MAX_MESSAGES_PER_SESSION + 1)
    /\ Len(store) = MAX_MESSAGES_PER_SESSION
    /\ Len(last.ret) = 1

\* C2: get_flash_messages of a stored id leaves the record in the mapping
\* with consumed true, whatever the filter and the result, so that
\* has_flash_messages of that id is false.
C2_GetConsumes ==
    [][(/\ clock' = clock
        /\ last'.op = "get_flash_messages"
        /\ last'.ctx
        /\ last'.request_id \in Keys(store))
       => /\ last'.request_id \in Keys(store')
          /\ Lookup(store', last'.request_id).consumed
          /\ ~has_result(store', last'.request_id)]_vars

\* A lookup whose filter kept the message back, the record still stored.
C2_Witness ==
    /\ last.op = "get_flash_messages"
    /\ last.ctx
    /\ last.request_id \in Keys(store)
    /\ last.ret = <<>>
    /\ last.category_filter.given
    /\ Lookup(store, last.request_id).category
           \notin last.category_filter.cats
    /\ Lookup(store, last.request_id).consumed

\* C3: between two flash_message calls no record is returned by two
\* get_all_flash_messages calls; an unconsumed, unexpired record that a
\* call does not return stays as it is, consumed false, and a call whose
\* filter admits it (no filter, or its category in the list) returns it.
C3_GetAllOnce ==
    [][(/\ clock' = clock
        /\ last'.op = "get_all_flash_messages"
        /\ last'.ctx)
       => /\ Range(last'.ids) \cap returned = {}
          /\ \A i \in DOMAIN store :
                 (/\ clock - store[i].timestamp < MAX_MESSAGE_AGE
                  /\ ~store[i].consumed)
                 => /\ store[i].id \notin Range(last'.ids)
                       => store[i] \in Range(store')
                    /\ (\/ ~last'.category_filter.given
                        \/ store[i].category \in last'.category_filter.cats)
                       => store[i].id \in Range(last'.ids)]_vars

\* A second get_all_flash_messages call returned a record that an earlier
\* one, which returned another record, had left.
C3_Witness ==
    /\ last.op = "get_all_flash_messages"
    /\ last.ctx
    /\ last.ids # <<>>
    /\ returned \ Range(last.ids) # {}

\* C4: the mapping never holds more than MAX_MESSAGES_PER_SESSION records.
\* Checked under SpecCap, which fills the mapping.
C4_SizeBound == Len(store) <= MAX_MESSAGES_PER_SESSION

\* flash_message has generated and stored an id beyond the limit.
C4_Witness ==
    /\ last.op = "flash_message"
    /\ last.ctx
    /\ last.request_id = None
    /\ nextUuid = MAX_MESSAGES_PER_SESSION + 2
    /\ Len(store) = MAX_MESSAGES_PER_SESSION

\* C5: flash_message calls that omit request_id, from the empty store: when
\* the 26th call is made and the first record has not reached
\* MAX_MESSAGE_AGE (so that no record has), the mapping holds the 25 records
\* stored last and the first one is gone. Checked under SpecFill.
C5_OldestEvicted ==
    [][(/\ clock' = clock
        /\ last'.op = "flash_message"
        /\ nextUuid = MAX_MESSAGES_PER_SESSION + 1
        /\ nextUuid' = MAX_MESSAGES_PER_SESSION + 2
        /\ \E i \in DOMAIN store :
               /\ store[i].id \in {_get_request_id(p, 1) : p \in Paths}
               /\ clock - store[i].timestamp < MAX_MESSAGE_AGE)
       => /\ Len(store') = MAX_MESSAGES_PER_SESSION
          /\ Keys(store') =
                 {_get_request_id(p, n) :
                     p \in Paths, n \in 2..(MAX_MESSAGES_PER_SESSION + 1)}]_vars

\* 26 records were stored at one and the same time.
C5_Witness ==
    /\ last.op = "flash_message"
    /\ nextUuid = MAX_MESSAGES_PER_SESSION + 2
    /\ Len(store) = MAX_MESSAGES_PER_SESSION
    /\ clock = 0
    /\ \A i \in DOMAIN store : store[i].timestamp = 0
    /\ \A p \in Paths : _get_request_id(p, 1) \notin Keys(store)

\* C6: after a flash_message or get_all_flash_messages call made at time
\* now with a request context, every stored record has now - timestamp <
\* MAX_MESSAGE_AGE; a record that had reached MAX_MESSAGE_AGE is not among
\* the returned ones and has_flash_messages of its id is false, unless the
\* call is a flash_message that stores a new record under that id.
C6_SweptAfterCall ==
    [][(/\ clock' = clock
        /\ last'.op \in {"flash_message", "get_all_flash_messages"}
        /\ last'.ctx)
       => /\ \A i \in DOMAIN store' :
                 last'.now - store'[i].timestamp < MAX_MESSAGE_AGE
          /\ \A i \in DOMAIN store :
                 last'.now - store[i].timestamp >= MAX_MESSAGE_AGE
                 => /\ store[i].id \notin Range(last'.ids)
                    /\ \/ /\ last'.op = "flash_message"
                          /\ last'.ret = store[i].id
                       \/ ~has_result(store', store[i].id)]_vars

\* A call made MAX_MESSAGE_AGE after the first record can have been stored
\* kept a record of age MAX_MESSAGE_AGE - 1.
C6_Witness ==
    /\ last.op \in {"flash_message", "get_all_flash_messages"}
    /\ last.ctx
    /\ last.now = MAX_MESSAGE_AGE
    /\ clock = last.now
    /\ \E i \in DOMAIN store :
           last.now - store[i].timestamp = MAX_MESSAGE_AGE - 1

\* C7: without a request context every function returns its sentinel and
\* the mapping stays as it is.
C7_NoContextNoEffect ==
    [][(/\ clock' = clock
        /\ ~last'.ctx
        /\ last'.op # "init")
       => /\ store' = store
          /\ nextUuid' = nextUuid
          /\ CASE last'.op = "flash_message" -> last'.ret = ""
               [] last'.op = "get_flash_messages" -> last'.ret = <<>>
               [] last'.op = "get_all_flash_messages" -> last'.ret = <<>>
               [] last'.op = "has_flash_messages" -> last'.ret = FALSE
               [] last'.op = "clear_flash_messages" -> last'.ret = None]_vars

\* clear_flash_messages() was called without a context on a mapping that
\* holds an unconsumed record.
C7_Witness ==
    /\ last.op = "clear_flash_messages"
    /\ ~last.ctx
    /\ \E i \in DOMAIN store : ~store[i].consumed

\* C8: with a request context, clear_flash_messages leaves the mapping
\* without the records it names and with every other record as it was:
\* empty when request_id is omitted (has_flash_messages() is then false),
\* without the record of request_id otherwise.
C8_ClearFrame ==
    [][(/\ clock' = clock
        /\ last'.op = "clear_flash_messages"
        /\ last'.ctx)
       => LET rid == last'.request_id
          IN  /\ Len(store') =
                     Cardinality({i \in DOMAIN store :
                                     rid # None /\ store[i].id # rid})
              /\ \A i \in DOMAIN store :
                     (rid # None /\ store[i].id # rid)
                     => store'[i - Cardinality({j \in 1..i :
                                                   store[j].id = rid})]
                            = store[i]
              /\ rid = None => ~has_result(store', None)]_vars

\* clear_flash_messages(id) took away a record that
\* get_all_flash_messages had returned, and left another one.
C8_Witness ==
    /\ last.op = "clear_flash_messages"
    /\ last.ctx
    /\ last.request_id \in returned
    /\ last.request_id \notin Keys(store)
    /\ clock = 0
    /\ store # <<>>

\* C9 as stated: a record that is consumed and whose id stays in the
\* mapping is consumed in the next state.
C9_NeverReset ==
    [][\A i \in DOMAIN store :
           (store[i].consumed /\ store[i].id \in Keys(store'))
           => Lookup(store', store[i].id).consumed]_vars

\* C9 amended: a record that is consumed and whose id stays in the mapping
\* is consumed in the next state, unless the step is a flash_message call
\* that stores a new record under that id.
C9_ResetOnlyByFlash ==
    [][\A i \in DOMAIN store :
           (/\ store[i].consumed
            /\ store[i].id \in Keys(store')
            /\ ~(/\ clock' = clock
                  /\ last'.op = "flash_message"
                  /\ last'.ctx
                  /\ last'.ret = store[i].id))
           => Lookup(store', store[i].id).consumed]_vars

\* get_all_flash_messages was called with a consumed and an unconsumed
\* record in the mapping, and the consumed one is still there.
C9_Witness ==
    /\ last.op = "get_all_flash_messages"
    /\ last.ctx
    /\ last.ids # <<>>
    /\ \E i \in DOMAIN store :
           store[i].consumed /\ store[i].id \notin Range(last.ids)

\* C10 as stated: with a category_filter, the empty list included, every
\* returned item comes from a record whose category is in the list, and
\* get_flash_messages returns nothing for a record whose category is not.
C10_FilterIsAllowList ==
    [][(/\ clock' = clock
        /\ last'.op \in {"get_flash_messages", "get_all_flash_messages"}
        /\ last'.ctx
        /\ last'.category_filter.given)
       => /\ \A k \in Range(last'.ids) :
                 Lookup(store, k).category \in last'.category_filter.cats
          /\ (/\ last'.op = "get_flash_messages"
              /\ last'.request_id \in Keys(store)
              /\ Lookup(store, last'.request_id).category
                     \notin last'.category_filter.cats)
             => last'.ret = <<>>]_vars

\* C11: with a request context, has_flash_messages(id) is true exactly when
\* id is a key of the mapping whose record has consumed false, and
\* has_flash_messages() exactly when some record has consumed false,
\* whatever the age of the records; the call leaves the mapping as it is.
C11_HasIff ==
    [][(/\ clock' = clock
        /\ last'.op = "has_flash_messages"
        /\ last'.ctx)
       => /\ store' = store
          /\ last'.ret =
                 IF last'.request_id # None
                 THEN \E i \in DOMAIN store :
                          /\ store[i].id = last'.request_id
                          /\ ~store[i].consumed
                 ELSE \E i \in DOMAIN store : ~store[i].consumed]_vars

\* has_flash_messages(id) answered true for a record that has reached
\* MAX_MESSAGE_AGE and that no call has swept.
C11_Witness ==
    /\ last.op = "has_flash_messages"
    /\ last.ctx
    /\ last.ret = TRUE
    /\ last.request_id \in Keys(store)
    /\ clock - Lookup(store, last.request_id).timestamp >= MAX_MESSAGE_AGE

\* C12 as stated: get_flash_messages of the id of a record that has reached
\* MAX_MESSAGE_AGE returns the empty list, swept or not, and
\* get_all_flash_messages returns no such record.
C12_ExpiredIsEmpty ==
    [][(/\ clock' = clock
        /\ last'.op \in {"get_flash_messages", "get_all_flash_messages"}
        /\ last'.ctx)
       => \A i \in DOMAIN store :
              clock - store[i].timestamp >= MAX_MESSAGE_AGE
              => /\ store[i].id \notin Range(last'.ids)
                 /\ (/\ last'.op = "get_flash_messages"
                     /\ last'.request_id = store[i].id)
                    => last'.ret = <<>>]_vars

\* C12 amended: get_all_flash_messages returns no record that has reached
\* MAX_MESSAGE_AGE; a get_flash_messages call that follows a flash_message
\* or get_all_flash_messages call returns only a record that had not
\* reached MAX_MESSAGE_AGE when that call was made; and
\* get_flash_messages of a stored id returns the record's item whatever
\* its age, when there is no category_filter or the category is in it.
C12_ExpiredAfterSweep ==
    [][(/\ clock' = clock
        /\ last'.op \in {"get_flash_messages", "get_all_flash_messages"}
        /\ last'.ctx)
       => /\ last'.op = "get_all_flash_messages"
             => \A i \in DOMAIN store :
                    clock - store[i].timestamp >= MAX_MESSAGE_AGE
                    => store[i].id \notin Range(last'.ids)
          /\ (/\ last'.op = "get_flash_messages"
              /\ last.op \in {"flash_message", "get_all_flash_messages"}
              /\ last.ctx
              /\ last'.ret # <<>>)
             => last.now - Lookup(store, last'.request_id).timestamp
                    < MAX_MESSAGE_AGE
          /\ (/\ last'.op = "get_flash_messages"
              /\ last'.request_id \in Keys(store)
              /\ \/ ~last'.category_filter.given
                 \/ Lookup(store, last'.request_id).category
                        \in last'.category_filter.cats)
             => last'.ret =
                    <<Item(Lookup(store, last'.request_id),
                           last'.with_categories)>>]_vars

\* get_flash_messages returned the message of a record that had reached
\* MAX_MESSAGE_AGE and was still stored.
C12_Witness ==
    /\ last.op = "get_flash_messages"
    /\ last.ctx
    /\ last.request_id \in Keys(store)
    /\ clock = last.now
    /\ clock - Lookup(store, last.request_id).timestamp >= MAX_MESSAGE_AGE
    /\ last.ret # <<>>

\* C13 as stated: a record without a timestamp counts as of age zero: the
\* sweep of flash_message and get_all_flash_messages keeps it, and the
\* capacity guard removes it only if no other record is older; a record
\* without a consumed flag counts as unconsumed: get_all_flash_messages
\* returns it if it has not expired, and has_flash_messages answers true.
\* Checked under SpecMalformed. The reads of the two fields are all made
\* with dict.get, which does not raise.
C13_MalformedTolerated ==
    [][(/\ clock' = clock
        /\ last'.ctx)
       => /\ last'.op \in {"flash_message", "get_all_flash_messages"}
             => \A i \in DOMAIN store :
                    "timestamp" \notin DOMAIN store[i]
                    => \/ store[i].id \in Keys(store')
                       \/ /\ last'.op = "flash_message"
                          /\ Len(store) >= MAX_MESSAGES_PER_SESSION
                          /\ \A j \in DOMAIN store :
                                 "timestamp" \in DOMAIN store[j]
                                 => store[j].timestamp >= clock
          /\ last'.op = "get_all_flash_messages"
             => \A i \in DOMAIN store :
                    (/\ "consumed" \notin DOMAIN store[i]
                     /\ \/ "timestamp" \notin DOMAIN store[i]
                        \/ clock - store[i].timestamp < MAX_MESSAGE_AGE)
                    => store[i].id \in Range(last'.ids)
          /\ last'.op = "has_flash_messages"
             => \A i \in DOMAIN store :
                    (/\ "consumed" \notin DOMAIN store[i]
                     /\ last'.request_id \in {None, store[i].id})
                    => last'.ret = TRUE]_vars

\* C14: when two requests that ran side by side have both written their
\* mapping, the session holds the mapping of the request that wrote last;
\* if that request had read the session before the other one wrote, then a
\* record only the other one added is not in the session, a record only
\* the other one looked up or returned is there with consumed false, and a
\* record only the other one removed is there. Checked under SpecTabs.
C14_LastWriterWins ==
    (\A t \in TabIds : tabs.req[t].pc = "saved")
    => LET first == tabs.req[tabs.saved[1]]
           later == tabs.req[tabs.saved[Len(tabs.saved)]]
       IN  /\ store = later.messages
           /\ tabs.saved[1] \notin later.after
              => /\ \A k \in Keys(first.messages) \ Keys(first.loaded) :
                        k \notin Keys(store)
                 /\ (Range(later.calls) \cap {"get_flash_messages",
                                              "get_all_flash_messages",
                                              "clear_flash_messages"} = {})
                    => \A i \in DOMAIN first.loaded :
                           /\ first.loaded[i].id \in Keys(store)
                           /\ Lookup(store, first.loaded[i].id).consumed
                                  = first.loaded[i].consumed

\* Both requests read the session before either wrote; the one that wrote
\* first had marked a record, the other one called flash_message only: the
\* session holds the record unmarked, next to the record added last.
C14_Witness ==
    /\ \A t \in TabIds : tabs.req[t].pc = "saved"
    /\ LET first == tabs.req[tabs.saved[1]]
           later == tabs.req[tabs.saved[Len(tabs.saved)]]
       IN  /\ tabs.saved[1] \notin later.after
           /\ Range(later.calls) = {"flash_message"}
           /\ Keys(store) \ Keys(later.loaded) # {}
           /\ \E i \in DOMAIN first.loaded :
                  /\ first.loaded[i].id \in Keys(first.messages)
                  /\ Lookup(first.messages, first.loaded[i].id).consumed
                  /\ ~Lookup(store, first.loaded[i].id).consumed

\* C15 as stated: with a request context get_all_flash_messages returns one
\* item for each record that has not reached MAX_MESSAGE_AGE, has consumed
\* false and passes the filter (there is no category_filter, or its
\* category is in the list), and for no other; these records are consumed
\* afterwards, the other unexpired ones are as they were, the expired ones
\* are gone; after a call without a filter has_flash_messages() is false.
C15_GetAllExact ==
    [][(/\ clock' = clock
        /\ last'.op = "get_all_flash_messages"
        /\ last'.ctx)
       => LET unexpired(i) ==
                  clock - store[i].timestamp < MAX_MESSAGE_AGE
              eligible(i) ==
                  /\ unexpired(i)
                  /\ ~store[i].consumed
                  /\ \/ ~last'.category_filter.given
                     \/ store[i].category \in last'.category_filter.cats
          IN  /\ Len(last'.ret) =
                     Cardinality({i \in DOMAIN store : eligible(i)})
              /\ Range(last'.ids) =
                     {store[i].id : i \in {j \in DOMAIN store : eligible(j)}}
              /\ \A i \in DOMAIN store :
                     IF ~unexpired(i)
                     THEN store[i].id \notin Keys(store')
                     ELSE IF eligible(i)
                     THEN [store[i] EXCEPT !.consumed = TRUE]
                              \in Range(store')
                     ELSE store[i] \in Range(store')
              /\ ~last'.category_filter.given
                 => ~has_result(store', None)]_vars

\* C16: in a flash_message call with a request context, the records that
\* have not reached MAX_MESSAGE_AGE all stay as they are, except the one
\* stored under the id written, when they are fewer than
\* MAX_MESSAGES_PER_SESSION; otherwise one of them, of minimal timestamp,
\* is removed (or is the one whose id is written) and all the others stay,
\* whatever the consumed flags and whether or not the id written is a key
\* already. Checked under SpecCap.
C16_EvictionIff ==
    [][(/\ clock' = clock
        /\ last'.op = "flash_message"
        /\ last'.ctx)
       => LET swept == {i \in DOMAIN store :
                           clock - store[i].timestamp < MAX_MESSAGE_AGE}
              after == Range(store')
              stays(i) == \/ store[i].id = last'.ret
                          \/ store[i] \in after
              left == {i \in swept : ~stays(i)}
          IN  IF Cardinality(swept) >= MAX_MESSAGES_PER_SESSION
              THEN \E i \in swept :
                       /\ left \subseteq {i}
                       /\ \A j \in swept :
                              store[i].timestamp <= store[j].timestamp
                       /\ \/ store[i].id = last'.ret
                          \/ store[i].id \notin Keys(store')
              ELSE left = {}]_vars

\* flash_message wrote an id that was a key of a full mapping, after time
\* had passed: a record is gone, a consumed one is still there.
C16_Witness ==
    /\ last.op = "flash_message"
    /\ last.ctx
    /\ last.request_id # None
    /\ clock < MAX_MESSAGE_AGE
    /\ Len(store) = MAX_MESSAGES_PER_SESSION - 1
    /\ \E i \in DOMAIN store : store[i].consumed
    /\ \E i \in DOMAIN store : store[i].timestamp < clock

\* C17: a get_flash_messages call that looks up a record which an earlier
\* call has looked up with the same arguments, and which flash_message has
\* not stored again since, returns what that call returned, the message or
\* the empty list, and leaves the mapping as it is. Checked under SpecLook.
C17_GetAgain ==
    [][(/\ clock' = clock
        /\ last'.op = "get_flash_messages"
        /\ last'.ctx
        /\ last'.request_id \in Keys(store)
        /\ looked[last'.request_id].n > 0
        /\ looked[last'.request_id].args
               = <<last'.with_categories, last'.category_filter>>)
       => /\ last'.ret = looked[last'.request_id].ret
          /\ store' = store]_vars

\* A record was looked up a second time and its message returned again.
C17_Witness ==
    /\ last.op = "get_flash_messages"
    /\ last.ctx
    /\ last.request_id \in Keys(store)
    /\ looked[last.request_id].n = 2
    /\ looked[last.request_id].args
           = <<last.with_categories, last.category_filter>>
    /\ last.ret # <<>>
    /\ Lookup(store, last.request_id).consumed

\* C18: a key leaves the mapping only in a clear_flash_messages call that
\* names it or names none, in a flash_message or get_all_flash_messages
\* call when its record has reached MAX_MESSAGE_AGE, or in a flash_message
\* call when MAX_MESSAGES_PER_SESSION records have not and none of them is
\* older; the message, category and timestamp under a key change only in a
\* flash_message call that writes the key; get_flash_messages and
\* has_flash_messages leave the keys as they are, has_flash_messages the
\* whole mapping, get_flash_messages all but the consumed flag of the
\* record looked up. Every call has a request context. Checked under
\* SpecCap.
C18_Lifecycle ==
    [][store' # store
       => /\ clock' = clock
          /\ last'.ctx
          /\ last'.op # "has_flash_messages"
          /\ \A i \in DOMAIN store :
                 IF store[i].id \notin Keys(store')
                 THEN \/ /\ last'.op = "clear_flash_messages"
                         /\ last'.request_id \in {None, store[i].id}
                      \/ /\ last'.op \in {"flash_message",
                                          "get_all_flash_messages"}
                         /\ clock - store[i].timestamp >= MAX_MESSAGE_AGE
                      \/ /\ last'.op = "flash_message"
                         /\ LET swept ==
                                    {j \in DOMAIN store :
                                        clock - store[j].timestamp
                                            < MAX_MESSAGE_AGE}
                            IN  /\ Cardinality(swept)
                                       >= MAX_MESSAGES_PER_SESSION
                                /\ \A j \in swept :
                                       store[i].timestamp
                                           <= store[j].timestamp
                 ELSE LET after == Lookup(store', store[i].id)
                      IN  \/ /\ after.message = store[i].message
                             /\ after.category = store[i].category
                             /\ after.timestamp = store[i].timestamp
                          \/ /\ last'.op = "flash_message"
                             /\ last'.ret = store[i].id
          /\ last'.op = "get_flash_messages"
             => /\ Len(store') = Len(store)
                /\ \A i \in DOMAIN store :
                       /\ store'[i].id = store[i].id
                       /\ store[i].id # last'.request_id
                          => store'[i] = store[i]]_vars

\* get_flash_messages looked up the first id generated, which had left the
\* mapping (cleared, or evicted from the full mapping when flash_message
\* stored the record of another id): the mapping holds the other records.
C18_Witness ==
    /\ last.op = "get_flash_messages"
    /\ last.ctx
    /\ last.request_id \in {_get_request_id(p, 1) : p \in Paths}
    /\ last.request_id \notin Keys(store)
    /\ last.ret = <<>>
    /\ Len(store) = MAX_MESSAGES_PER_SESSION
    /\ nextUuid = MAX_MESSAGES_PER_SESSION + 2
    /\ clock = 0

\* C19: get_all_flash_messages returns no record that get_flash_messages
\* has looked up since flash_message stored it, whatever the filters of
\* the two calls. Checked under SpecLook.
C19_LookedUpKeptOut ==
    [][(/\ clock' = clock
        /\ last'.op = "get_all_flash_messages"
        /\ last'.ctx)
       => \A k \in Range(last'.ids) : looked[k].n = 0]_vars

\* get_all_flash_messages returned a record and left out another one, not
\* expired and of a category its filter admits, that get_flash_messages had
\* looked up with a filter that kept the message back.
C19_Witness ==
    /\ last.op = "get_all_flash_messages"
    /\ last.ctx
    /\ clock = last.now
    /\ last.ids # <<>>
    /\ \E i \in DOMAIN store :
           /\ store[i].id \notin Range(last.ids)
           /\ looked[store[i].id].n > 0
           /\ looked[store[i].id].ret = <<>>
           /\ clock - store[i].timestamp < MAX_MESSAGE_AGE
           /\ \/ ~last.category_filter.given
              \/ store[i].category \in last.category_filter.cats

\* C20 as stated: whatever the order in which two requests read and write
\* the session, no record is returned by get_all_flash_messages to both.
C20_AtMostOnceAcrossTabs ==
    \A t, u \in TabIds :
        t # u => Range(tabs.req[t].ids) \cap Range(tabs.req[u].ids) = {}

\* C20 amended: a request that read the session after the other one had
\* written it is returned no record the other one was returned.
C20_AtMostOnceInTurn ==
    \A t, u \in TabIds :
        u \in tabs.req[t].after
        => Range(tabs.req[t].ids) \cap Range(tabs.req[u].ids) = {}

\* A request was returned records by get_all_flash_messages and wrote the
\* session; the other one read the session after that, called
\* get_all_flash_messages and wrote.
C20_Witness ==
    \E t, u \in TabIds :
        /\ u \in tabs.req[t].after
        /\ tabs.req[u].ids # <<>>
        /\ tabs.req[t].pc = "saved"
        /\ tabs.req[t].calls = <<"get_all_flash_messages">>
        /\ \E k \in Range(tabs.req[u].ids) : k \in Keys(tabs.req[t].loaded)

====
